---------------------------- MODULE Spec2Model ----------------------------
(***************************************************************************)
(* A model of the particle sandbox: the PhysicsWorld of src/src/physics.rs *)
(* (Verlet integration, wall collisions, id allocation, binary-search      *)
(* lookup, sticks, impulses) and the event handlers of src/src/main.rs     *)
(* that drive it.                                                          *)
(*                                                                         *)
(* f32 values are modelled as tagged records: a finite value (an integer,  *)
(* every input of the model is chosen so that the arithmetic stays exact   *)
(* in f32), an infinity with its sign, or NaN.  usize and u32 arithmetic   *)
(* follows the build profile: with overflow checks (debug) a wrap panics,  *)
(* without them (release) the value wraps; every lookup is taken under     *)
(* either profile.                                                         *)
(***************************************************************************)
EXTENDS Integers, Sequences, FiniteSets, TLC

VARIABLES
    objects,          \* PhysicsWorld.objects: Vec<Particle>
    connections,      \* PhysicsWorld.connections: Vec<Stick>
    gravity,          \* PhysicsWorld.gravity
    world_bounds,     \* PhysicsWorld.world_bounds
    scale,            \* PhysicsWorld.scale
    current_id,       \* PhysicsWorld.current_id
    line_start,       \* Model.line_start
    line_end,         \* Model.line_end
    op,               \* the PhysicsWorld operation that ran last
    issued,           \* every value next_id has returned, in call order
    drawn             \* result of the last draw_sticks call

vars == <<objects, connections, gravity, world_bounds, scale, current_id,
          line_start, line_end, op, issued, drawn>>

world == <<objects, connections, gravity, world_bounds, scale, current_id>>

-----------------------------------------------------------------------------
(* Bounds of the model *)

\* the driver spawns while the two ids it takes stay below this
MaxIds == 4
\* add_object is called while the world of SpecPhys holds fewer particles
MaxBodies == 1
\* next_id (API) is called while current_id is below this
MaxCalls == 3
\* add_impulses is called while every force component stays within this
\* many impulses of zero
MaxPending == 1

-----------------------------------------------------------------------------
(* f32 *)

Fin(n) == [k |-> "fin", v |-> n]
NaN == [k |-> "nan", v |-> 0]
Inf(s) == [k |-> "inf", v |-> s]
Zero == Fin(0)

Sgn(n) == IF n > 0 THEN 1 ELSE IF n < 0 THEN -1 ELSE 0
Abs(n) == IF n < 0 THEN -n ELSE n

\* a + b
FAdd(a, b) ==
    IF a.k = "nan" \/ b.k = "nan" THEN NaN
    ELSE IF a.k = "inf" THEN (IF b.k = "inf" /\ b.v # a.v THEN NaN ELSE a)
    ELSE IF b.k = "inf" THEN b
    ELSE Fin(a.v + b.v)

\* -a
FNeg(a) == IF a.k = "nan" THEN NaN ELSE [a EXCEPT !.v = -a.v]

\* a - b
FSub(a, b) == FAdd(a, FNeg(b))

\* a * b
FMul(a, b) ==
    IF a.k = "nan" \/ b.k = "nan" THEN NaN
    ELSE IF a.k = "inf" \/ b.k = "inf"
         THEN (IF a.v = 0 \/ b.v = 0 THEN NaN ELSE Inf(Sgn(a.v) * Sgn(b.v)))
    ELSE Fin(a.v * b.v)

\* a / b; a zero divisor is +0.0 (the only zero divisor of the program is the
\* literal 0.0), and finite quotients are exact for the inputs of the model
FDiv(a, b) ==
    IF a.k = "nan" \/ b.k = "nan" THEN NaN
    ELSE IF a.k = "inf" THEN (IF b.k = "inf" THEN NaN
                              ELSE Inf(IF b.v < 0 THEN -a.v ELSE a.v))
    ELSE IF b.k = "inf" THEN Zero
    ELSE IF b.v = 0 THEN (IF a.v = 0 THEN NaN ELSE Inf(Sgn(a.v)))
    ELSE Fin(Sgn(a.v) * Sgn(b.v) * (Abs(a.v) \div Abs(b.v)))

\* a < b: false as soon as one side is NaN
FLt(a, b) ==
    /\ a.k # "nan" /\ b.k # "nan"
    /\ IF a.k = "inf" THEN a.v < 0 /\ ~(b.k = "inf" /\ b.v < 0)
       ELSE IF b.k = "inf" THEN b.v > 0
       ELSE a.v < b.v

\* a > b
FGt(a, b) == FLt(b, a)

\* a <= b
FLe(a, b) == a.k # "nan" /\ b.k # "nan" /\ ~FLt(b, a)

\* |a|
FAbs(a) == IF a.k = "nan" THEN NaN ELSE [a EXCEPT !.v = Abs(a.v)]

(* glam::Vec2 *)
Vec2(x, y) == [x |-> x, y |-> y]
VecZero == Vec2(Zero, Zero)
VAdd(a, b) == Vec2(FAdd(a.x, b.x), FAdd(a.y, b.y))
VSub(a, b) == Vec2(FSub(a.x, b.x), FSub(a.y, b.y))
VScale(a, s) == Vec2(FMul(a.x, s), FMul(a.y, s))
VDiv(a, s) == Vec2(FDiv(a.x, s), FDiv(a.y, s))
VInt(x, y) == Vec2(Fin(x), Fin(y))


-----------------------------------------------------------------------------
(* Particle and Stick *)

\* Particle.restitution as set by Particle::new, in hundredths (0.85)
Restitution == 85

\* Particle::new: old_pos starts at pos, force at zero (colour is opaque
\* payload and is left out)
NewParticle(pos, mass, radius, id) ==
    [pos |-> pos, old_pos |-> pos, force |-> VecZero, mass |-> mass,
     radius |-> radius, restitution |-> Restitution, id |-> id]

\* Particle::add_impulse
add_impulse(p, amount_x, amount_y) ==
    [p EXCEPT !.force = VAdd(p.force, Vec2(amount_x, amount_y))]

\* Stick { id_1, id_2, distance }
NewStick(id_1, id_2, distance) ==
    [id_1 |-> id_1, id_2 |-> id_2, distance |-> distance]

-----------------------------------------------------------------------------
(* PhysicsWorld *)

\* set_bounds: the new value of world_bounds
set_bounds(bounds, new_bounds) ==
    IF bounds # new_bounds THEN new_bounds ELSE bounds

\* usize::MAX, the value `0usize - 1` wraps to without overflow checks.  It
\* stands for 2^64 - 1: what matters is that half of it exceeds every Vec
\* length, and this is the largest value the model checker's integers hold.
UsizeMax == 2147483647

Some(i) == [kind |-> "Some", idx |-> i]
None == [kind |-> "None", idx |-> -1]
Panic == [kind |-> "Panic", idx |-> -1]

\* `n - 1` on usize: a panic with overflow checks, a wrap without them
\* (-1 stands for the panic)
UsizeDec(n, checks) == IF n > 0 THEN n - 1 ELSE IF checks THEN -1 ELSE UsizeMax

\* The loop of get_particle_by_id, from 0-based bounds left and right.
\* objs[mid] panics when mid is out of range.
RECURSIVE BinarySearch(_, _, _, _, _)
BinarySearch(objs, target_id, left, right, checks) ==
    IF left <= right
    THEN LET mid == left + ((right - left) \div 2) IN
         IF mid >= Len(objs) THEN Panic
         ELSE IF objs[mid + 1].id = target_id THEN Some(mid)
         ELSE IF objs[mid + 1].id < target_id
              THEN BinarySearch(objs, target_id, mid + 1, right, checks)
         ELSE LET r == UsizeDec(mid, checks) IN
              IF r < 0 THEN Panic
              ELSE BinarySearch(objs, target_id, left, r, checks)
    ELSE None

\* get_particle_by_id: Some(index of the particle), None, or a panic
get_particle_by_id(objs, target_id, checks) ==
    LET right == UsizeDec(Len(objs), checks) IN
    IF right < 0 THEN Panic
    ELSE BinarySearch(objs, target_id, 0, right, checks)

\* (mutant) the particle is put first
add_object_front(objs, object) == <<object>> \o objs

\* add_object
add_object(objs, object) == Append(objs, object)

\* add_stick
add_stick(sticks, stick) == Append(sticks, stick)

\* add_impulses
add_impulses(objs, amount_x, amount_y) ==
    [i \in 1..Len(objs) |-> add_impulse(objs[i], amount_x, amount_y)]

\* The body of step's loop for one particle, up to the wall checks
Integrate(p, delta_time, g, sc, bounds) ==
    LET two == Fin(2)
        vel == VSub(p.pos, p.old_pos)
        old0 == p.pos
        acc0 == VDiv(p.force, p.mass)
        acc == [acc0 EXCEPT !.y = FAdd(acc0.y, g)]
        pos0 == VAdd(p.pos,
                     VAdd(vel, VScale(VScale(VScale(acc, sc), delta_time),
                                      delta_time)))
        half_x == FDiv(bounds.x, two)
        half_y == FDiv(bounds.y, two)
        bottom == FLt(FSub(pos0.y, p.radius), FDiv(FNeg(bounds.y), two))
        top == FGt(FAdd(pos0.y, p.radius), half_y)
        pos_y == IF bottom THEN FAdd(FDiv(FNeg(bounds.y), two), p.radius)
                 ELSE IF top THEN FSub(half_y, p.radius)
                 ELSE pos0.y
        old_y == IF bottom \/ top THEN FAdd(pos_y, vel.y) ELSE old0.y
        left == FLt(FSub(pos0.x, p.radius), FDiv(FNeg(bounds.x), two))
        right == FGt(FAdd(pos0.x, p.radius), half_x)
        pos_x == IF left THEN FAdd(FDiv(FNeg(bounds.x), two), p.radius)
                 ELSE IF right THEN FSub(half_x, p.radius)
                 ELSE pos0.x
        old_x == IF left \/ right THEN FAdd(pos_x, vel.x) ELSE old0.x
    IN  [p EXCEPT !.pos = Vec2(pos_x, pos_y),
                  !.old_pos = Vec2(old_x, old_y)]

\* (mutant) the force is not reset at the end of the loop body
StepParticleKeepsForce(p, delta_time, g, sc, bounds) ==
    Integrate(p, delta_time, g, sc, bounds)

\* The body of step's loop for one particle: the force is reset last
StepParticle(p, delta_time, g, sc, bounds) ==
    [Integrate(p, delta_time, g, sc, bounds) EXCEPT !.force = VecZero]

\* step
step(objs, delta_time, g, sc, bounds) ==
    [i \in 1..Len(objs) |-> StepParticle(objs[i], delta_time, g, sc, bounds)]

\* draw_sticks: every stick's endpoints are looked up in turn, the second
\* only when the first resolved; a line is drawn when both did
RECURSIVE DrawFrom(_, _, _, _, _)
DrawFrom(objs, sticks, i, lines, checks) ==
    IF i > Len(sticks) THEN [panic |-> FALSE, lines |-> lines]
    ELSE LET p1 == get_particle_by_id(objs, sticks[i].id_1, checks) IN
         IF p1.kind = "Panic" THEN [panic |-> TRUE, lines |-> lines]
         ELSE IF p1.kind = "None" THEN DrawFrom(objs, sticks, i + 1, lines, checks)
         ELSE LET p2 == get_particle_by_id(objs, sticks[i].id_2, checks) IN
              IF p2.kind = "Panic" THEN [panic |-> TRUE, lines |-> lines]
              ELSE IF p2.kind = "None"
                   THEN DrawFrom(objs, sticks, i + 1, lines, checks)
              ELSE DrawFrom(objs, sticks, i + 1, lines + 1, checks)

draw_sticks(objs, sticks, checks) == DrawFrom(objs, sticks, 1, 0, checks)

\* (mutant) clear also restarts the id counter
clear_resets_id ==
    /\ objects' = <<>>
    /\ connections' = <<>>
    /\ current_id' = 0
    /\ UNCHANGED <<gravity, world_bounds, scale>>

\* (mutant) clear leaves the sticks
clear_keeps_sticks ==
    /\ objects' = <<>>
    /\ UNCHANGED <<connections, gravity, world_bounds, scale, current_id>>

\* clear: both collections are emptied, nothing else is touched
clear ==
    /\ objects' = <<>>
    /\ connections' = <<>>
    /\ UNCHANGED <<gravity, world_bounds, scale, current_id>>

\* next_id: the value returned and the counter it leaves (the u32 counter
\* stays far below its width: callers stop at MaxIds or MaxCalls)
next_id(cur) == [ret |-> cur, counter |-> cur + 1]

\* PhysicsWorld::new
NewWorld(g, bounds, sc) ==
    /\ objects = <<>>
    /\ connections = <<>>
    /\ gravity = g
    /\ world_bounds = bounds
    /\ scale = sc
    /\ current_id = 0

\* A panic ends the process: nothing runs after it
Alive == ~drawn.panic

NoView == [panic |-> FALSE, lines |-> 0]

\* Fewer than MaxPending impulses of size up to m are pending: no force
\* component exceeds MaxPending - 1 impulses
CanPush(objs, m) ==
    \A i \in 1..Len(objs) :
        /\ Abs(objs[i].force.x.v) <= (MaxPending - 1) * m
        /\ Abs(objs[i].force.y.v) <= (MaxPending - 1) * m

-----------------------------------------------------------------------------
(* The driver: src/src/main.rs *)

\* METER_TO_PIXEL_RATIO
METER_TO_PIXEL_RATIO == 100
\* RADIUS
RADIUS == 20
\* GRAVITY = -9.81, rounded to the nearest value that keeps the model's
\* arithmetic exact
GRAVITY == -10
\* mass of circle1 in mouse_released_event (0.0)
Mass1 == 0
\* mass of circle2 in mouse_released_event (10.0)
Mass2 == 10
\* distance of the stick made in mouse_released_event (100.0)
StickDistance == 100
\* key_pressed_event draws each impulse component as 20000*random - 10000
ImpulseMax == 10000

\* window sizes app.window_rect().w_h() takes
WindowSizes == {VInt(800, 600), VInt(400, 300)}
\* mouse positions
MousePositions == {VInt(100, -50)}
\* values of (random_f32()*RADIUS*0.5)-(RADIUS*0.25), which lies in [-5, 5)
Offsets == {-5, 0}
\* a value of the pair (20000.0*random_f32()-10000.0,
\* 20000.0*random_f32()-10000.0), each component in [-10000, 10000)
Impulses == {<<-ImpulseMax, ImpulseMax \div 2>>}
\* elapsed seconds between two updates
DeltaTimes == {0, 1}
Buttons == {"Left", "Right"}
Keys == {"X", "Space", "A"}

\* model(): the world is built from GRAVITY, the window size and
\* METER_TO_PIXEL_RATIO
Init ==
    /\ \E w \in WindowSizes :
          NewWorld(Fin(GRAVITY), w, Fin(METER_TO_PIXEL_RATIO))
    /\ line_start = VecZero
    /\ line_end = VecZero
    /\ op = "new"
    /\ issued = <<>>
    /\ drawn = NoView

\* update: set_bounds with the window size, then one step
update ==
    /\ Alive
    /\ \E new_dimensions \in WindowSizes, delta_time \in DeltaTimes :
          LET b == set_bounds(world_bounds, new_dimensions) IN
          /\ world_bounds' = b
          /\ objects' = step(objects, Fin(delta_time), gravity, scale, b)
    /\ op' = "step"
    /\ UNCHANGED <<connections, gravity, scale, current_id, line_start,
                   line_end, issued, drawn>>

\* mouse_pressed_event
mouse_pressed_event ==
    /\ Alive
    /\ \E button \in Buttons, mouse_position \in MousePositions :
          line_start' = IF button = "Left" THEN mouse_position ELSE line_start
    /\ UNCHANGED <<world, line_end, op, issued, drawn>>

\* mouse_moved_event
mouse_moved_event ==
    /\ Alive
    /\ \E position \in MousePositions : line_end' = position
    /\ UNCHANGED <<world, line_start, op, issued, drawn>>

\* (mutant) circle2 is made but never added
SpawnOne(offset) ==
    LET n1 == next_id(current_id)
        n2 == next_id(n1.counter)
        circle1 == NewParticle(line_start, Fin(Mass1), Fin(RADIUS + offset),
                               n1.ret)
    IN  /\ current_id' = n2.counter
        /\ issued' = issued \o <<n1.ret, n2.ret>>
        /\ objects' = add_object(objects, circle1)
        /\ connections' = add_stick(connections,
                              NewStick(n1.ret, n2.ret, Fin(StickDistance)))
        /\ UNCHANGED <<gravity, world_bounds, scale>>

\* The left-button branch of mouse_released_event: two ids, two particles
\* appended in id order, one stick between them
Spawn(offset) ==
    LET n1 == next_id(current_id)
        n2 == next_id(n1.counter)
        circle1 == NewParticle(line_start, Fin(Mass1), Fin(RADIUS + offset),
                               n1.ret)
        circle2 == NewParticle(line_end, Fin(Mass2), Fin(RADIUS + offset),
                               n2.ret)
    IN  /\ current_id' = n2.counter
        /\ issued' = issued \o <<n1.ret, n2.ret>>
        /\ objects' = add_object(add_object(objects, circle1), circle2)
        /\ connections' = add_stick(connections,
                              NewStick(n1.ret, n2.ret, Fin(StickDistance)))
        /\ UNCHANGED <<gravity, world_bounds, scale>>

\* mouse_released_event
mouse_released_event ==
    /\ Alive
    /\ \E button \in Buttons, offset \in Offsets :
          IF button = "Left"
          THEN current_id + 2 <= MaxIds /\ Spawn(offset) /\ op' = "spawn"
          ELSE UNCHANGED <<world, issued, op>>
    /\ UNCHANGED <<line_start, line_end, drawn>>

\* key_pressed_event
key_pressed_event ==
    /\ Alive
    /\ \E key \in Keys :
          CASE key = "X" -> clear /\ op' = "clear"
            [] key = "Space" ->
                 /\ CanPush(objects, ImpulseMax)
                 /\ \E a \in Impulses :
                       objects' = add_impulses(objects, Fin(a[1]), Fin(a[2]))
                 /\ op' = "add_impulses"
                 /\ UNCHANGED <<connections, gravity, world_bounds, scale,
                                current_id>>
            [] OTHER -> UNCHANGED <<world, op>>
    /\ UNCHANGED <<line_start, line_end, issued, drawn>>

\* view: draw_sticks resolves every stick's endpoints
view ==
    /\ Alive
    /\ \E checks \in BOOLEAN :
          drawn' = draw_sticks(objects, connections, checks)
    /\ UNCHANGED <<world, line_start, line_end, op, issued>>

Next ==
    \/ update
    \/ mouse_pressed_event
    \/ mouse_moved_event
    \/ mouse_released_event
    \/ key_pressed_event
    \/ view

Spec == Init /\ [][Next]_vars

-----------------------------------------------------------------------------
(* The PhysicsWorld API called directly, in any order.  SpecAPI takes many  *)
(* particles and sticks through coarse physics (every impulse carries a    *)
(* particle to a wall); SpecPhys takes few particles through fine physics  *)
(* (free flight, gravity, bounces).                                        *)

\* arguments of PhysicsWorld::new and set_bounds
ApiGravities == {0}
ApiScales == {1}
ApiBounds == {VInt(8, 8), VInt(4, 4)}
\* arguments of Particle::new
ApiPositions == {VInt(0, 0)}
ApiMasses == {10}
ApiRadii == {1}
\* arguments of step
ApiDeltaTimes == {1}
\* arguments of add_impulses
ApiImpulses == {<<100, -100>>}
\* distance of a stick
ApiDistances == {2}

\* the largest magnitude of a component of the impulses
MaxAbs(impulses) ==
    LET c == {Abs(a[1]) : a \in impulses} \cup {Abs(a[2]) : a \in impulses}
    IN  CHOOSE m \in c : \A n \in c : n <= m

Range(f) == {f[i] : i \in DOMAIN f}

InitWith(gravities, bounds) ==
    /\ \E g \in gravities, b \in bounds, sc \in ApiScales :
          NewWorld(Fin(g), b, Fin(sc))
    /\ line_start = VecZero
    /\ line_end = VecZero
    /\ op = "new"
    /\ issued = <<>>
    /\ drawn = NoView

driver == <<line_start, line_end>>

NextId ==
    /\ Alive
    /\ current_id < MaxCalls
    /\ LET n == next_id(current_id) IN
          /\ current_id' = n.counter
          /\ issued' = Append(issued, n.ret)
    /\ op' = "next_id"
    /\ UNCHANGED <<objects, connections, gravity, world_bounds, scale,
                   driver, drawn>>

Last(q) == q[Len(q)]

\* add_object with a particle made by Particle::new with the id allocated
\* last, while the world holds fewer than cap particles
AddObject(cap, positions, masses) ==
    /\ Alive
    /\ Len(objects) < cap
    /\ issued # <<>>
    /\ \E id \in {Last(issued)}, pos \in positions, mass \in masses,
          radius \in ApiRadii :
          objects' = add_object(objects,
                         NewParticle(pos, Fin(mass), Fin(radius), id))
    /\ op' = "add_object"
    /\ UNCHANGED <<connections, gravity, world_bounds, scale, current_id,
                   driver, issued, drawn>>

\* add_stick between the two ids allocated last; the world holds at most one
\* stick per two allocated ids
AddStick ==
    /\ Alive
    /\ 2 * (Len(connections) + 1) <= current_id
    /\ \E id_2 \in {Last(issued)}, id_1 \in {Last(issued) - 1},
          distance \in ApiDistances :
          connections' = add_stick(connections,
                             NewStick(id_1, id_2, Fin(distance)))
    /\ op' = "add_stick"
    /\ UNCHANGED <<objects, gravity, world_bounds, scale, current_id,
                   driver, issued, drawn>>

Clear ==
    /\ Alive
    /\ clear
    /\ op' = "clear"
    /\ UNCHANGED <<driver, issued, drawn>>

AddImpulses(impulses) ==
    /\ Alive
    /\ CanPush(objects, MaxAbs(impulses))
    /\ \E a \in impulses :
          objects' = add_impulses(objects, Fin(a[1]), Fin(a[2]))
    /\ op' = "add_impulses"
    /\ UNCHANGED <<connections, gravity, world_bounds, scale, current_id,
                   driver, issued, drawn>>

Step(times) ==
    /\ Alive
    /\ \E delta_time \in times :
          objects' = step(objects, Fin(delta_time), gravity, scale,
                          world_bounds)
    /\ op' = "step"
    /\ UNCHANGED <<connections, gravity, world_bounds, scale, current_id,
                   driver, issued, drawn>>

SetBounds(bounds) ==
    /\ Alive
    /\ \E new_bounds \in bounds :
          world_bounds' = set_bounds(world_bounds, new_bounds)
    /\ op' = "set_bounds"
    /\ UNCHANGED <<objects, connections, gravity, scale, current_id,
                   driver, issued, drawn>>

InitAPI == InitWith(ApiGravities, ApiBounds)

NextAPI ==
    \/ NextId
    \/ AddObject(current_id, ApiPositions, ApiMasses)
    \/ AddStick
    \/ Clear
    \/ AddImpulses(ApiImpulses)
    \/ Step(ApiDeltaTimes)
    \/ SetBounds(ApiBounds)
    \/ view

SpecAPI == InitAPI /\ [][NextAPI]_vars

\* arguments of PhysicsWorld::new, set_bounds, Particle::new, add_impulses
\* and step in SpecPhys
PhysGravities == {0, -1}
PhysBounds == {VInt(8, 8), VInt(4, 6)}
PhysPositions == {VInt(0, 0), VInt(2, -1)}
PhysMasses == {0, 10}
PhysImpulses == {<<10, -10>>, <<0, 10>>}

InitPhys == InitWith(PhysGravities, PhysBounds)

NextPhys ==
    \/ NextId
    \/ AddObject(MaxBodies, PhysPositions, PhysMasses)
    \/ Clear
    \/ AddImpulses(PhysImpulses)
    \/ Step(DeltaTimes)
    \/ SetBounds(PhysBounds)

SpecPhys == InitPhys /\ [][NextPhys]_vars

-----------------------------------------------------------------------------
(* Properties *)

Ids(objs) == [i \in 1..Len(objs) |-> objs[i].id]
Half(b) == FDiv(b, Fin(2))
Profiles == BOOLEAN

\* a == b on f32: false as soon as one side is NaN
FEq(a, b) == a.k # "nan" /\ b.k # "nan" /\ a = b

\* the implicit velocity of a particle
Velocity(p) == VSub(p.pos, p.old_pos)

\* C1: after every step, every particle lies within the bounds:
\* |pos.x| <= bounds.x/2 and |pos.y| <= bounds.y/2.
BoundaryContainment ==
    op = "step" =>
        \A i \in 1..Len(objects) :
            /\ FLe(FAbs(objects[i].pos.x), Half(world_bounds.x))
            /\ FLe(FAbs(objects[i].pos.y), Half(world_bounds.y))

\* The same for the particles of positive mass (it holds while the bounds
\* are at least a diameter wide)
BoundaryContainmentPositiveMass ==
    op = "step" =>
        \A i \in 1..Len(objects) :
            FGt(objects[i].mass, Zero) =>
                /\ FLe(FAbs(objects[i].pos.x), Half(world_bounds.x))
                /\ FLe(FAbs(objects[i].pos.y), Half(world_bounds.y))

\* C2: the N-th call of next_id returns N-1, whatever is called in between.
IdMonotonic == \A n \in 1..Len(issued) : issued[n] = n - 1

\* every id of the bound has been issued, the last one to a world that holds
\* a stick and no particle
IdMonotonicWitness ==
    /\ op = "next_id"
    /\ Len(issued) = MaxCalls
    /\ objects = <<>>
    /\ connections # <<>>

\* C3: in a world whose particles have the ids 0..k in ascending order (the
\* empty world included), get_particle_by_id(i) returns the particle with id
\* i for i <= k and None for every other id.
LookupCorrect ==
    Ids(objects) = [i \in 1..Len(objects) |-> i - 1] =>
        \A target_id \in 0..MaxCalls, checks \in Profiles :
            get_particle_by_id(objects, target_id, checks) =
                IF target_id < Len(objects) THEN Some(target_id) ELSE None

\* C4: a stick endpoint that is the id of no particle resolves to None, and
\* draw_sticks never fails on it.
DanglingTolerated ==
    /\ ~drawn.panic
    /\ \A n \in 1..Len(connections) :
          \A id \in {connections[n].id_1, connections[n].id_2} :
              id \notin Range(Ids(objects)) =>
                  \A checks \in Profiles :
                      get_particle_by_id(objects, id, checks) = None

\* C5: clear empties both collections and leaves the id counter, gravity,
\* bounds and scale alone, also on a world that is already empty.
ClearEmpties ==
    [][op' = "clear" =>
          /\ objects' = <<>>
          /\ connections' = <<>>
          /\ UNCHANGED <<current_id, gravity, world_bounds, scale>>]_vars

\* a clear after every id of the bound was issued
ClearWitness ==
    /\ op = "clear"
    /\ current_id = MaxCalls
    /\ objects = <<>>
    /\ connections = <<>>

\* On one axis: without a snap (the position advanced by exactly the old
\* velocity) the velocity is kept, with a snap its sign is flipped
AxisKept(v, pos, v2, pos2) ==
    /\ FEq(FAbs(v2), FAbs(v))
    /\ IF FEq(pos2, FAdd(pos, v)) THEN FEq(v2, v) ELSE FEq(v2, FNeg(v))

SpeedKept(p, q) ==
    /\ AxisKept(Velocity(p).x, p.pos.x, Velocity(q).x, q.pos.x)
    /\ AxisKept(Velocity(p).y, p.pos.y, Velocity(q).y, q.pos.y)

\* C6: with gravity 0, a step keeps the magnitude of each component of the
\* implicit velocity of every particle that has no accumulated force; a wall
\* contact flips the sign of that component only.
EnergyKept ==
    [][(op' = "step" /\ gravity = Zero) =>
          \A i \in 1..Len(objects) :
              objects[i].force = VecZero =>
                  SpeedKept(objects[i], objects'[i])]_vars

\* The same for the particles of positive mass
EnergyKeptPositiveMass ==
    [][(op' = "step" /\ gravity = Zero) =>
          \A i \in 1..Len(objects) :
              (objects[i].force = VecZero /\ FGt(objects[i].mass, Zero)) =>
                  SpeedKept(objects[i], objects'[i])]_vars

\* C7: the particles are in strictly ascending id order.
SortedOrder ==
    \A i \in 1..Len(objects), j \in 1..Len(objects) :
        i < j => objects[i].id < objects[j].id

\* a second spawn after a clear, then a step
SortedWitness ==
    /\ op = "step"
    /\ Ids(objects) = <<2, 3>>

\* C8: every particle of the world has a positive mass.
PositiveMass == \A i \in 1..Len(objects) : FGt(objects[i].mass, Zero)

\* C9: add_impulses adds its argument to the force of every particle and
\* changes nothing else; after every step every force is zero.
ImpulseOneStep ==
    /\ [][(op' = "add_impulses" /\ world' # world) =>
             /\ \E a \in ApiImpulses :
                   /\ Len(objects') = Len(objects)
                   /\ \A i \in 1..Len(objects) :
                         objects'[i] =
                             [objects[i] EXCEPT
                                 !.force = Vec2(FAdd(@.x, Fin(a[1])),
                                                FAdd(@.y, Fin(a[2])))]
             /\ UNCHANGED <<connections, gravity, world_bounds, scale,
                            current_id>>]_vars
    /\ [](op = "step" => \A i \in 1..Len(objects) : objects[i].force = VecZero)

\* a step has moved a particle that an impulse had pushed, and its force is
\* zero again
ImpulseWitness ==
    /\ op = "step"
    /\ \E i \in 1..Len(objects) :
          /\ objects[i].pos \notin ApiPositions
          /\ objects[i].force = VecZero

\* C10: under the driver every stick joins two distinct particles of the
\* world, there are two particles per stick, and draw_sticks resolves every
\* endpoint without failing.
SticksResolve ==
    /\ Len(objects) = 2 * Len(connections)
    /\ \A n \in 1..Len(connections) :
          /\ connections[n].id_1 # connections[n].id_2
          /\ connections[n].id_1 \in Range(Ids(objects))
          /\ connections[n].id_2 \in Range(Ids(objects))
    /\ ~drawn.panic
    /\ \A checks \in Profiles :
          draw_sticks(objects, connections, checks) =
              [panic |-> FALSE, lines |-> Len(connections)]

\* two spawns, and draw_sticks has drawn both sticks
SticksWitness ==
    /\ Len(connections) = 2
    /\ drawn.lines = 2

\* get_particle_by_id on a non-empty world with the ids 0..k in order
LookupCorrectNonEmpty == objects # <<>> => LookupCorrect

=============================================================================
